---- MODULE Spec2Model ----
(***************************************************************************)
(* Job queue scheduler of the text-to-video server: the in-memory job      *)
(* status map (WebHelpers.JobStatusHistory), the polling thread            *)
(* (WebHelpers.QueueWatcher), the job runner (Server.ProcessJob), the      *)
(* request handlers of Server.py that touch the queue, and the startup     *)
(* recovery loop of Server.py.  Threads interleave between the statements  *)
(* that read or write shared state (the map, job.json, QUEUE_WATCHER).     *)
(***************************************************************************)
EXTENDS Integers, Sequences, FiniteSets, TLC

\* ------------------------------------------------------------------ bounds
NumTexts    == 1   \* distinct request texts
MaxTime     == 1   \* clock seconds 0..MaxTime (time.strftime has 1 s resolution)
MaxWatchers == 2   \* QueueWatcher objects that exist at the same time
NumJobThreads     == 1   \* request threads serving POST and GET /api/v1/jobs
NumTriggerThreads == 1   \* request threads serving /api/v1/jobs/triggerRemaining
MaxCfgJobs  == 2   \* configs["api"]["maxJobs"] ranges over 1..MaxCfgJobs
MAX_TIMEOUT == 2   \* configs["api"]["maxTimeout"], the watcher's tick limit

Texts    == 1..NumTexts
Seconds  == 0..MaxTime
\* Watcher object 0 is the one the global QUEUE_WATCHER refers to; the others
\* are objects the global no longer refers to whose threads still run.
QUEUE_WATCHER == 0
Watchers == 0..(MaxWatchers - 1)
JobThreads     == 1..NumJobThreads
TriggerThreads == (NumJobThreads + 1)..(NumJobThreads + NumTriggerThreads)
Handlers == JobThreads \cup TriggerThreads

\* ------------------------------------------------------------- job record
Status == {"queued", "processing", "completed", "failed"}

\* hashlib.md5(text.encode() + currentTime.encode()).hexdigest(): the digest
\* of the text followed by the 19-character timestamp; equal inputs give
\* equal ids, and the digest is taken to be collision-free otherwise.
jobId(text, currentTime) == <<text, currentTime>>

JobIds == {jobId(t, s) : t \in Texts, s \in Seconds}
NoJob  == <<0, 0>>

\* ---------------------------------------------------- JobStatusHistory
\* The dict self.history as the sequence of its items in insertion order.
keys(h) == {h[i].id : i \in DOMAIN h}

get(h, j, default) ==
  IF j \in keys(h) THEN h[CHOOSE i \in DOMAIN h : h[i].id = j].st ELSE default

values(h) == [i \in DOMAIN h |-> h[i].st]

updateStatus(h, j, status) ==
  IF j \in keys(h)
    THEN [i \in DOMAIN h |-> IF h[i].id = j THEN [id |-> j, st |-> status] ELSE h[i]]
    ELSE Append(h, [id |-> j, st |-> status])

VARIABLES
  history,        \* JOB_HISTORY_OBJ.history
  jobJson,        \* per job id: "nodir", "nofile" (directory without job.json)
                  \* or the "status" field of its job.json
  wpc,            \* per watcher object: position of its thread
  wcounter,       \* per watcher object: self.counter
  wjob,           \* per watcher object: jobId of its running ProcessJob call
  hpc,            \* per handler thread: position in its route function
  hjob,           \* per handler thread: local jobId
  hstatus,        \* per handler thread: local status (getJobStatus)
  hdisk,          \* per handler thread: job.json status seen when it answered
  phase,          \* "recover": __main__ before app.run;  "up": serving
  todo,           \* job directories the recovery loop has yet to visit
  bootStatus,     \* during recovery: what each job.json held at process start
  now,            \* wall clock in seconds
  maxJobs,        \* MAX_JOBS
  threaded,       \* app.run's threaded option: requests served concurrently
  admitted,       \* job ids for which ProcessJob was entered in this process
  request,        \* the request body the last postJob call received
  reply,          \* the HTTP answer of that call
  cancelRequested, \* job ids whose job.json carries the cancellation flag
  pack,           \* GenerateVideo's caption packing loop: its position, its
                  \* inputs and its local variables
  segments,       \* GenerateVideo's choice of background clips: its position,
                  \* its inputs and its local variables
  run,            \* one ProcessJob call seen from inside: its position, the
                  \* files of the job directory and the job's status
  download,       \* the last getProcessedVideo call: what it found and its answer
  overlay,        \* AddCaptionsToVideo's filter loop: its position, its
                  \* captions and the filters built so far
  deleted,        \* job ids whose DELETE request answered 200
  split           \* splitAudio's segment loop: its position, its inputs and
                  \* its local variables

vars == <<history, jobJson, wpc, wcounter, wjob, hpc, hjob,
          hstatus, hdisk, phase, todo, bootStatus, now, maxJobs, threaded, admitted,
          request, reply, cancelRequested, pack, segments,
          run, download, overlay, deleted, split>>

watcherVars == <<wpc, wcounter, wjob>>
handlerVars == <<hpc, hjob, hstatus, hdisk>>
bootVars    == <<phase, todo, bootStatus, maxJobs, threaded>>
submitVars  == <<request, reply>>
restVars == <<run, download, overlay, split>>
pipelineVars == <<submitVars, cancelRequested, pack, segments, restVars, deleted>>

\* No request body and no answer are on record.
NoRequest == [body |-> "none"]
NoReply   == [code |-> 0]
NoPacking == [pc |-> "idle"]
NoSegments == [pc |-> "idle"]
NoRun == [pc |-> "idle"]
NoDownload == [code |-> 0]
NoOverlay == [pc |-> "idle"]
NoSplit == [pc |-> "idle"]
RestIdle ==
  /\ run = NoRun
  /\ download = NoDownload
  /\ overlay = NoOverlay
  /\ split = NoSplit
PipelineIdle ==
  /\ request = NoRequest
  /\ reply = NoReply
  /\ cancelRequested = {}
  /\ pack = NoPacking
  /\ segments = NoSegments
  /\ RestIdle
  /\ deleted = {}

\* Thread.is_alive(): started and run() not yet returned.
is_alive(w) == wpc[w] \notin {"none", "new", "dead"}

\* Positions of a watcher thread inside ProcessJob.
InProcessJob == {"p36", "p37", "p41", "p76", "p77", "p83", "p84"}

noOfBeingProcessedJobs(h) ==
  Cardinality({i \in DOMAIN h : h[i].st = "processing"})

\* First item of the dict whose status is "queued" (QueueWatcher.run's for loop).
HasQueued(h) == \E i \in DOMAIN h : h[i].st = "queued"
FirstQueued(h) ==
  h[CHOOSE i \in DOMAIN h :
      /\ h[i].st = "queued"
      /\ \A k \in DOMAIN h : k < i => h[k].st # "queued"].id

\* UpdateJobStatus: rewrite job.json with the new status; a missing file
\* (FileNotFoundError on the read) returns without writing.
UpdateJobStatus(disk, j, status) ==
  IF disk[j] \in {"nodir", "nofile"} THEN disk ELSE [disk EXCEPT ![j] = status]

\* QUEUE_WATCHER = QueueWatcher(...): the global refers to a new object with
\* counter 0.  If the thread of the object it referred to still runs, that
\* object lives on unreferenced (in the lowest free slot); otherwise it is
\* garbage.
FreeSlot(w) ==
  /\ w # QUEUE_WATCHER
  /\ wpc[w] = "none"
  /\ \A v \in Watchers : (v # QUEUE_WATCHER /\ wpc[v] = "none") => w <= v

Construct ==
  IF wpc[QUEUE_WATCHER] \in {"new", "dead"}
    THEN /\ wpc' = [wpc EXCEPT ![QUEUE_WATCHER] = "new"]
         /\ wcounter' = [wcounter EXCEPT ![QUEUE_WATCHER] = 0]
         /\ wjob' = wjob
    ELSE \E w \in Watchers :
           /\ FreeSlot(w)
           /\ wpc' = [wpc EXCEPT ![w] = wpc[QUEUE_WATCHER], ![QUEUE_WATCHER] = "new"]
           /\ wcounter' = [wcounter EXCEPT ![w] = wcounter[QUEUE_WATCHER],
                                           ![QUEUE_WATCHER] = 0]
           /\ wjob' = [wjob EXCEPT ![w] = wjob[QUEUE_WATCHER],
                                   ![QUEUE_WATCHER] = NoJob]

\* ------------------------------------------------------------------- Init
\* Module level of Server.py on a fresh store: empty map, one QueueWatcher
\* constructed and not yet started, no job directory.
Init ==
  /\ history = <<>>
  /\ jobJson = [j \in JobIds |-> "nodir"]
  /\ wpc = [w \in Watchers |-> IF w = QUEUE_WATCHER THEN "new" ELSE "none"]
  /\ wcounter = [w \in Watchers |-> 0]
  /\ wjob = [w \in Watchers |-> NoJob]
  /\ hpc = [h \in Handlers |-> "idle"]
  /\ hjob = [h \in Handlers |-> NoJob]
  /\ hstatus = [h \in Handlers |-> "none"]
  /\ hdisk = [h \in Handlers |-> "none"]
  /\ phase = "recover"
  /\ todo = {}
  /\ bootStatus = [j \in JobIds |-> "nodir"]
  /\ now = 0
  /\ maxJobs \in 1..MaxCfgJobs
  /\ threaded \in BOOLEAN
  /\ admitted = {}
  /\ PipelineIdle

\* ------------------------------------------------------- QueueWatcher.run
\* A watcher whose thread ends: still QUEUE_WATCHER -> "dead", else garbage.
Ended(w) == IF w = QUEUE_WATCHER THEN "dead" ELSE "none"

\* Lines 74-79: count the jobs being processed.
WatcherCount(w) ==
  /\ wpc[w] = "count"
  /\ wpc' = [wpc EXCEPT ![w] =
               IF noOfBeingProcessedJobs(history) >= maxJobs THEN "sleep" ELSE "scan"]
  /\ UNCHANGED <<pipelineVars, history, jobJson, wcounter, wjob, handlerVars,
                 bootVars, now, admitted>>

\* Lines 86-90: the first queued job, if any, is handed to self.func.
WatcherScan(w) ==
  /\ wpc[w] = "scan"
  /\ IF HasQueued(history)
       THEN /\ wjob' = [wjob EXCEPT ![w] = FirstQueued(history)]
            /\ wpc' = [wpc EXCEPT ![w] = "p36"]
       ELSE /\ wjob' = wjob
            /\ wpc' = [wpc EXCEPT ![w] = "sleep"]
  /\ UNCHANGED <<pipelineVars, history, jobJson, wcounter, handlerVars,
                 bootVars, now, admitted>>

\* Lines 93-97: sleep, count the tick, leave the loop at the tick limit.
WatcherSleep(w) ==
  /\ wpc[w] = "sleep"
  /\ wcounter' = [wcounter EXCEPT ![w] = wcounter[w] + 1]
  /\ wpc' = [wpc EXCEPT ![w] =
               IF wcounter[w] + 1 >= MAX_TIMEOUT THEN Ended(w) ELSE "count"]
  /\ wjob' = [wjob EXCEPT ![w] = NoJob]
  /\ UNCHANGED <<pipelineVars, history, jobJson, handlerVars, bootVars, now, admitted>>

\* ------------------------------------------------------------- ProcessJob
\* Line 36.
ProcessJobSetProcessing(w) ==
  /\ wpc[w] = "p36"
  /\ history' = updateStatus(history, wjob[w], "processing")
  /\ admitted' = admitted \cup {wjob[w]}
  /\ wpc' = [wpc EXCEPT ![w] = "p37"]
  /\ UNCHANGED <<pipelineVars, jobJson, wcounter, wjob, handlerVars, bootVars, now>>

\* Line 37.
ProcessJobWriteProcessing(w) ==
  /\ wpc[w] = "p37"
  /\ jobJson' = UpdateJobStatus(jobJson, wjob[w], "processing")
  /\ wpc' = [wpc EXCEPT ![w] = "p41"]
  /\ UNCHANGED <<pipelineVars, history, wcounter, wjob, handlerVars, bootVars,
                 now, admitted>>

\* A runner that handed the pipeline to a thread of its own and returned to
\* the polling loop at once, the job left "processing".
ProcessJobDetached(w) ==
  /\ wpc[w] = "p41"
  /\ wpc' = [wpc EXCEPT ![w] = "sleep"]
  /\ UNCHANGED <<pipelineVars, history, jobJson, wcounter, wjob, handlerVars,
                 bootVars, now, admitted>>

\* Lines 41-75 and 87: job.json is read and GenerateVideo is run; a missing
\* job.json raises into the except clause, GenerateVideo returns
\* (True, id), returns (False, None) or raises.
ProcessJobGenerateVideo(w) ==
  /\ wpc[w] = "p41"
  /\ \E isGenerated \in BOOLEAN :
       wpc' = [wpc EXCEPT ![w] =
                 IF jobJson[wjob[w]] \in {"nodir", "nofile"} \/ ~isGenerated
                   THEN "p76" ELSE "p83"]
  /\ UNCHANGED <<pipelineVars, history, jobJson, wcounter, wjob, handlerVars,
                 bootVars, now, admitted>>

\* Line 76 (and the identical line 91 of the except clause).
ProcessJobSetFailed(w) ==
  /\ wpc[w] = "p76"
  /\ history' = updateStatus(history, wjob[w], "failed")
  /\ wpc' = [wpc EXCEPT ![w] = "p77"]
  /\ UNCHANGED <<pipelineVars, jobJson, wcounter, wjob, handlerVars, bootVars,
                 now, admitted>>

\* Line 77 (and 92), then return to QueueWatcher.run line 90.
ProcessJobWriteFailed(w) ==
  /\ wpc[w] = "p77"
  /\ jobJson' = UpdateJobStatus(jobJson, wjob[w], "failed")
  /\ wpc' = [wpc EXCEPT ![w] = "sleep"]
  /\ UNCHANGED <<pipelineVars, history, wcounter, wjob, handlerVars, bootVars,
                 now, admitted>>

\* Line 83.
ProcessJobSetCompleted(w) ==
  /\ wpc[w] = "p83"
  /\ history' = updateStatus(history, wjob[w], "completed")
  /\ wpc' = [wpc EXCEPT ![w] = "p84"]
  /\ UNCHANGED <<pipelineVars, jobJson, wcounter, wjob, handlerVars, bootVars,
                 now, admitted>>

\* Line 84, then return to QueueWatcher.run line 90.
ProcessJobWriteCompleted(w) ==
  /\ wpc[w] = "p84"
  /\ jobJson' = UpdateJobStatus(jobJson, wjob[w], "completed")
  /\ wpc' = [wpc EXCEPT ![w] = "sleep"]
  /\ UNCHANGED <<pipelineVars, history, wcounter, wjob, handlerVars, bootVars,
                 now, admitted>>

\* A request is taken up when the server is up and, unless it serves requests
\* on threads of their own, no other request is under way.
InFlight == {h \in Handlers : hpc[h] # "idle"}
Accepts(h) ==
  /\ phase = "up"
  /\ hpc[h] = "idle"
  /\ threaded \/ InFlight = {}

\* ---------------------------------------------------------------- postJob
\* Lines 276-309: the request passed validation; the id is derived from the
\* text and the current second, the job directory is made (exist_ok), and
\* QUEUE_WATCHER.is_alive() is tested.
PostJobBegin(h) ==
  /\ Accepts(h)
  /\ \E text \in Texts :
       LET j == jobId(text, now) IN
         /\ hjob' = [hjob EXCEPT ![h] = j]
         /\ jobJson' = [jobJson EXCEPT ![j] = IF @ = "nodir" THEN "nofile" ELSE @]
  /\ hpc' = [hpc EXCEPT ![h] = IF is_alive(QUEUE_WATCHER) THEN "p314" ELSE "p310"]
  /\ UNCHANGED <<pipelineVars, history, watcherVars, hstatus, hdisk, bootVars, now, admitted>>

\* Lines 310-311: a new QueueWatcher replaces the global one.
PostJobNewWatcher(h) ==
  /\ hpc[h] = "p310"
  /\ Construct
  /\ hpc' = [hpc EXCEPT ![h] = "p314"]
  /\ UNCHANGED <<pipelineVars, history, jobJson, hjob, hstatus, hdisk, bootVars, now, admitted>>

\* Line 314.
PostJobSetQueued(h) ==
  /\ hpc[h] = "p314"
  /\ history' = updateStatus(history, hjob[h], "queued")
  /\ deleted' = deleted \ {hjob[h]}
  /\ hpc' = [hpc EXCEPT ![h] = "p328"]
  /\ UNCHANGED <<submitVars, cancelRequested, pack, segments, restVars, jobJson, watcherVars, hjob, hstatus, hdisk, bootVars, now, admitted>>

\* Lines 317-329: job.json is (re)written with status "queued".
PostJobWriteJob(h) ==
  /\ hpc[h] = "p328"
  /\ jobJson' = [jobJson EXCEPT ![hjob[h]] = "queued"]
  /\ cancelRequested' = cancelRequested \ {hjob[h]}
  /\ hpc' = [hpc EXCEPT ![h] = "p331"]
  /\ UNCHANGED <<submitVars, pack, segments, restVars, deleted, history, watcherVars, hjob, hstatus, hdisk, bootVars, now, admitted>>

\* Lines 331-338: the global watcher is started unless it is alive.  start()
\* on a thread that already ran raises RuntimeError and starts nothing.
PostJobStartWatcher(h) ==
  /\ hpc[h] = "p331"
  /\ wpc' = [wpc EXCEPT ![QUEUE_WATCHER] = IF @ = "new" THEN "count" ELSE @]
  /\ hpc' = [hpc EXCEPT ![h] = "idle"]
  /\ hjob' = [hjob EXCEPT ![h] = NoJob]
  /\ UNCHANGED <<pipelineVars, history, jobJson, wcounter, wjob, hstatus, hdisk,
                 bootVars, now, admitted>>

\* ---------------------------------------------------- triggerRemainingJobs
\* Lines 384 and 389: a live watcher answers "already running".
TriggerCheckWatcher(h) ==
  /\ Accepts(h)
  /\ hpc' = [hpc EXCEPT ![h] = IF is_alive(QUEUE_WATCHER) THEN "idle" ELSE "t385"]
  /\ UNCHANGED <<pipelineVars, history, jobJson, watcherVars, hjob, hstatus, hdisk, bootVars,
                 now, admitted>>

\* Lines 385-386.
TriggerNewWatcher(h) ==
  /\ hpc[h] = "t385"
  /\ Construct
  /\ hpc' = [hpc EXCEPT ![h] = "t387"]
  /\ UNCHANGED <<pipelineVars, history, jobJson, hjob, hstatus, hdisk, bootVars, now, admitted>>

\* Line 387: QUEUE_WATCHER.start() on whatever the global holds by now.
TriggerStartWatcher(h) ==
  /\ hpc[h] = "t387"
  /\ wpc' = [wpc EXCEPT ![QUEUE_WATCHER] = IF @ = "new" THEN "count" ELSE @]
  /\ hpc' = [hpc EXCEPT ![h] = "idle"]
  /\ UNCHANGED <<pipelineVars, history, jobJson, wcounter, wjob, hjob, hstatus,
                 hdisk, bootVars, now, admitted>>

\* ------------------------------------------------------------ getJobStatus
\* A handler that answered from job.json instead of the map.
readStatusFromJobJson(h, disk, j) ==
  IF disk[j] \in {"nodir", "nofile"} THEN "unknown" ELSE disk[j]

\* Line 352: status = JOB_HISTORY_OBJ.get(jobId, "unknown").
readStatus(h, disk, j) == get(h, j, "unknown")

\* Lines 348-352: 404 for an unknown id, else the status is read from the map.
GetJobStatusRead(h) ==
  /\ Accepts(h)
  /\ \E j \in JobIds :
       IF j \in keys(history)
         THEN /\ hjob' = [hjob EXCEPT ![h] = j]
              /\ hstatus' = [hstatus EXCEPT ![h] = readStatus(history, jobJson, j)]
              /\ hpc' = [hpc EXCEPT ![h] = "g357"]
         ELSE UNCHANGED <<pipelineVars, hjob, hstatus, hpc>>
  /\ UNCHANGED <<pipelineVars, history, jobJson, watcherVars, hdisk, bootVars, now, admitted>>

\* Lines 355-373: job.json is read for the other fields; 404 if it is missing,
\* else 200 with the status read at line 352.
GetJobStatusAnswer(h) ==
  /\ hpc[h] = "g357"
  /\ IF jobJson[hjob[h]] \in {"nodir", "nofile"}
       THEN /\ hpc' = [hpc EXCEPT ![h] = "idle"]
            /\ hjob' = [hjob EXCEPT ![h] = NoJob]
            /\ hstatus' = [hstatus EXCEPT ![h] = "none"]
            /\ hdisk' = hdisk
       ELSE /\ hpc' = [hpc EXCEPT ![h] = "g200"]
            /\ hdisk' = [hdisk EXCEPT ![h] = jobJson[hjob[h]]]
            /\ UNCHANGED <<pipelineVars, hjob, hstatus>>
  /\ UNCHANGED <<pipelineVars, history, jobJson, watcherVars, bootVars, now, admitted>>

\* The 200 response has been sent; the handler thread is free again.
GetJobStatusDone(h) ==
  /\ hpc[h] = "g200"
  /\ hpc' = [hpc EXCEPT ![h] = "idle"]
  /\ hjob' = [hjob EXCEPT ![h] = NoJob]
  /\ hstatus' = [hstatus EXCEPT ![h] = "none"]
  /\ hdisk' = [hdisk EXCEPT ![h] = "none"]
  /\ UNCHANGED <<pipelineVars, history, jobJson, watcherVars, bootVars, now, admitted>>

\* ------------------------------------------------- process start (__main__)
\* The process dies (crash or kill) and is started again: every thread and
\* the in-memory map are gone, the store directory is what it was.  Module
\* level (line 138) constructs the first QueueWatcher; line 504 lists the
\* job directories.
Restart ==
  /\ history' = <<>>
  /\ wpc' = [w \in Watchers |-> IF w = QUEUE_WATCHER THEN "new" ELSE "none"]
  /\ wcounter' = [w \in Watchers |-> 0]
  /\ wjob' = [w \in Watchers |-> NoJob]
  /\ hpc' = [h \in Handlers |-> "idle"]
  /\ hjob' = [h \in Handlers |-> NoJob]
  /\ hstatus' = [h \in Handlers |-> "none"]
  /\ hdisk' = [h \in Handlers |-> "none"]
  /\ phase' = "recover"
  /\ todo' = {j \in JobIds : jobJson[j] # "nodir"}
  /\ bootStatus' = jobJson
  /\ admitted' = {}
  /\ UNCHANGED <<pipelineVars, jobJson, now, maxJobs, threaded>>

\* A recovery that requeued only "queued" jobs and gave up on interrupted ones.
RecoveredStatusInterruptedFailed(status) ==
  IF status = "queued" THEN "queued"
  ELSE IF status = "processing" THEN "failed" ELSE status

\* Lines 513-518: the status loaded from job.json, reset to "queued" in the
\* map and in job.json when it is "queued" or "processing".
RecoveredStatus(status) ==
  IF status \in {"queued", "processing"} THEN "queued" ELSE status

\* Lines 507-523, one iteration; os.listdir returns the directories in
\* arbitrary order.
RecoverJob ==
  /\ phase = "recover"
  /\ \E j \in todo :
       /\ todo' = todo \ {j}
       /\ IF jobJson[j] = "nofile"
            THEN /\ history' = updateStatus(history, j, "unknown")
                 /\ jobJson' = jobJson
            ELSE /\ history' = updateStatus(history, j, RecoveredStatus(jobJson[j]))
                 /\ jobJson' = IF jobJson[j] \in {"queued", "processing"}
                                 THEN UpdateJobStatus(jobJson, j, "queued")
                                 ELSE jobJson
  /\ UNCHANGED <<pipelineVars, watcherVars, handlerVars, phase, bootStatus, now, maxJobs, threaded,
                 admitted>>

\* Line 530 and app.run: the watcher is started and requests are served.
StartServer ==
  /\ phase = "recover"
  /\ todo = {}
  /\ phase' = "up"
  /\ bootStatus' = [j \in JobIds |-> "nodir"]
  /\ wpc' = [wpc EXCEPT ![QUEUE_WATCHER] = "count"]
  /\ UNCHANGED <<pipelineVars, history, jobJson, wcounter, wjob, handlerVars,
                 todo, now, maxJobs, threaded, admitted>>

\* time.localtime() moves on to the next second.
ClockTick ==
  /\ now < MaxTime
  /\ now' = now + 1
  /\ UNCHANGED <<pipelineVars, history, jobJson, watcherVars, handlerVars, bootVars, admitted>>

\* ------------------------------------------------------------------- Next
WatcherStep(w) ==
  \/ WatcherCount(w)
  \/ WatcherScan(w)
  \/ WatcherSleep(w)
  \/ ProcessJobSetProcessing(w)
  \/ ProcessJobWriteProcessing(w)
  \/ ProcessJobGenerateVideo(w)
  \/ ProcessJobSetFailed(w)
  \/ ProcessJobWriteFailed(w)
  \/ ProcessJobSetCompleted(w)
  \/ ProcessJobWriteCompleted(w)

PostJobStep(h) ==
  \/ PostJobBegin(h)
  \/ PostJobNewWatcher(h)
  \/ PostJobSetQueued(h)
  \/ PostJobWriteJob(h)
  \/ PostJobStartWatcher(h)

GetJobStatusStep(h) ==
  \/ GetJobStatusRead(h)
  \/ GetJobStatusAnswer(h)
  \/ GetJobStatusDone(h)

TriggerStep(h) ==
  \/ TriggerCheckWatcher(h)
  \/ TriggerNewWatcher(h)
  \/ TriggerStartWatcher(h)

\* The server with its restarts, one request handled at a time
\* (app.run(threaded=False)); the watcher threads run beside the handler.
Next ==
  \/ \E w \in Watchers : WatcherStep(w)
  \/ \E h \in JobThreads : PostJobStep(h)
  \/ \E h \in JobThreads : GetJobStatusStep(h)
  \/ \E h \in TriggerThreads : TriggerStep(h)
  \/ Restart
  \/ RecoverJob
  \/ StartServer
  \/ ClockTick

InitSerial == Init /\ threaded = FALSE

Spec == InitSerial /\ [][Next]_vars

\* One process lifetime of the server as app.run starts it by default: each
\* request on a thread of its own, so a POST and a triggerRemaining can be
\* under way at the same time.
NextThreaded ==
  \/ \E w \in Watchers : WatcherStep(w)
  \/ \E h \in JobThreads : PostJobStep(h)
  \/ \E h \in TriggerThreads : TriggerStep(h)
  \/ StartServer
  \/ ClockTick

InitThreaded == Init /\ threaded = TRUE

SpecThreaded == InitThreaded /\ [][NextThreaded]_vars

\* ------------------------------------------- postJob, the whole handler
maxTextLength == 2   \* configs["api"]["maxTextLength"]

\* A request body: not JSON, an empty JSON value, or an object with a text
\* (its content and its length after strip()) and the optional fields
\* "language" and "voice", each absent, a supported value or an unsupported
\* one.
Bodies    == {"notjson", "empty", "object"}
Languages == {"absent", "supported", "unsupported"}
Requests ==
  [body : Bodies, text : Texts, len : 0..(maxTextLength + 1),
   language : Languages, voice : Languages]

\* Lines 276-292: the four early returns with status 400.
Rejected(req) ==
  \/ req.body = "notjson"
  \/ req.body = "empty"
  \/ req.len = 0
  \/ req.len > maxTextLength

\* Lines 272-338 run without interruption by one request thread.
postJob ==
  /\ phase = "up"
  /\ InFlight = {}
  /\ \E req \in Requests :
       /\ request' = req
       /\ IF Rejected(req)
            THEN /\ reply' = [code |-> 400]
                 /\ UNCHANGED <<history, jobJson, watcherVars, cancelRequested,
                                deleted>>
            ELSE LET j == jobId(req.text, now) IN
                   /\ history' = updateStatus(history, j, "queued")
                   /\ jobJson' = [jobJson EXCEPT ![j] = "queued"]
                   /\ cancelRequested' = cancelRequested \ {j}
                   /\ deleted' = deleted \ {j}
                   /\ IF is_alive(QUEUE_WATCHER)
                        THEN UNCHANGED watcherVars
                        ELSE /\ wpc' = [wpc EXCEPT ![QUEUE_WATCHER] = "count"]
                             /\ wcounter' = [wcounter EXCEPT ![QUEUE_WATCHER] = 0]
                             /\ wjob' = wjob
                   /\ reply' = [code |-> 202, jobId |-> j]
  /\ UNCHANGED <<handlerVars, bootVars, now, admitted, pack, segments, restVars>>

\* The server after startup, requests served one at a time, the first
\* watcher in its polling loop.
QueueStarted ==
  /\ wpc = [w \in Watchers |-> IF w = QUEUE_WATCHER THEN "count" ELSE "none"]
  /\ wcounter = [w \in Watchers |-> 0]
  /\ wjob = [w \in Watchers |-> NoJob]
  /\ hpc = [h \in Handlers |-> "idle"]
  /\ hjob = [h \in Handlers |-> NoJob]
  /\ hstatus = [h \in Handlers |-> "none"]
  /\ hdisk = [h \in Handlers |-> "none"]
  /\ phase = "up"
  /\ todo = {}
  /\ bootStatus = [j \in JobIds |-> "nodir"]
  /\ now = 0
  /\ maxJobs = 1
  /\ threaded = FALSE
  /\ admitted = {}

\* The server just after startup on an empty store.
ServerUp ==
  /\ history = <<>>
  /\ jobJson = [j \in JobIds |-> "nodir"]
  /\ QueueStarted

InitSubmit == ServerUp /\ PipelineIdle

NextSubmit == postJob \/ ClockTick

SpecSubmit == InitSubmit /\ [][NextSubmit]_vars

\* ------------------------------------------------------------ cancellation
\* DELETE /api/v1/jobs/<jobId>/cancel for a job that is "queued": the
\* cancellation flag is recorded in the job's job.json.
cancelJob ==
  /\ phase = "up"
  /\ InFlight = {}
  /\ \E j \in keys(history) :
       /\ get(history, j, "unknown") = "queued"
       /\ jobJson[j] \in Status
       /\ cancelRequested' = cancelRequested \cup {j}
  /\ UNCHANGED <<history, jobJson, watcherVars, handlerVars, bootVars, now,
                 admitted, submitVars, pack, segments, restVars, deleted>>

NextCancel ==
  \/ \E w \in Watchers : WatcherStep(w)
  \/ \E h \in JobThreads : PostJobStep(h)
  \/ cancelJob
  \/ ClockTick

SpecCancel == InitSubmit /\ [][NextCancel]_vars

\* ------------------------------------- GenerateVideo, caption packing loop
MaxWords     == 3   \* words in captionWords
MaxWordWidth == 3   \* width of a word in pixels
MaxBudget    == 3   \* captionReservedWidth in pixels
MaxSpaceWidth == 1  \* charactersWidth[" "] in pixels

\* captionWords: the words in narration order.  A word is known by its place
\* in the narration (the code's dict with "start", "end", "word"); its width
\* is sum(charactersWidth.get(char, 0) for char in word.upper()), which is 0
\* for an empty word or one of characters the table lacks.
WordWidths == UNION {[1..n -> 0..MaxWordWidth] : n \in 0..MaxWords}
Words(ws) == [k \in DOMAIN ws |-> [word |-> k, width |-> ws[k]]]

\* A slice that stops one element early.
SliceShort(s, first, last) == SubSeq(s, first + 1, last - 1)

\* Python's s[first:last] for 0 <= first <= last <= len(s).
Slice(s, first, last) == SubSeq(s, first + 1, last)

\* Lines 252-265: the loop's variables before the first test of the outer
\* while.
StartPacking(ws, budget, space) ==
  [pc |-> "outer", captionWords |-> Words(ws), captionReservedWidth |-> budget,
   spaceWidth |-> space, captionsList |-> <<>>, counter |-> 0, i |-> 0,
   currentWidth |-> 0, wordWidth |-> 0]

\* Lines 267-269: the test of the outer while and the reset of the line.
PackOuter ==
  /\ pack.pc = "outer"
  /\ pack' = IF pack.counter < Len(pack.captionWords)
               THEN [pack EXCEPT !.pc = "inner", !.currentWidth = 0,
                                 !.i = pack.counter]
               ELSE [pack EXCEPT !.pc = "done"]
  /\ UNCHANGED <<history, jobJson, watcherVars, handlerVars, bootVars, now,
                 admitted, submitVars, cancelRequested, segments, restVars, deleted>>

\* Lines 270-285: one pass of the inner while: the word at i is measured;
\* an oversized word or one that does not fit ends the line, a word that
\* fits is taken.
PackInner ==
  /\ pack.pc = "inner"
  /\ pack' =
       IF pack.i < Len(pack.captionWords)
         THEN LET wordWidth == pack.captionWords[pack.i + 1].width IN
                IF wordWidth > pack.captionReservedWidth
                  THEN [pack EXCEPT !.wordWidth = wordWidth, !.pc = "close"]
                  ELSE IF pack.currentWidth + wordWidth <= pack.captionReservedWidth
                    THEN [pack EXCEPT !.wordWidth = wordWidth,
                                      !.currentWidth = @ + wordWidth,
                                      !.i = @ + 1]
                    ELSE [pack EXCEPT !.wordWidth = wordWidth, !.pc = "close"]
         ELSE [pack EXCEPT !.pc = "close"]
  /\ UNCHANGED <<history, jobJson, watcherVars, handlerVars, bootVars, now,
                 admitted, submitVars, cancelRequested, segments, restVars, deleted>>

\* A close of the line that skips an oversized word, as the loop's log
\* message puts it, instead of giving it a line of its own.
PackCloseSkipOversized ==
  /\ pack.pc = "close"
  /\ LET line == [words |-> Slice(pack.captionWords, pack.counter, pack.i)] IN
       pack' = [pack EXCEPT !.captionsList = Append(@, line),
                            !.counter = IF pack.wordWidth > pack.captionReservedWidth
                                          THEN pack.i + 1 ELSE pack.i,
                            !.pc = "outer"]
  /\ UNCHANGED <<history, jobJson, watcherVars, handlerVars, bootVars, now,
                 admitted, submitVars, cancelRequested, segments, restVars, deleted>>

\* A close of the line without lines 298-305: an oversized word is neither
\* emitted nor passed over.
PackCloseNoAdvance ==
  /\ pack.pc = "close"
  /\ LET line == [words |-> Slice(pack.captionWords, pack.counter, pack.i)] IN
       pack' = [pack EXCEPT !.captionsList = Append(@, line),
                            !.counter = pack.i,
                            !.pc = "outer"]
  /\ UNCHANGED <<history, jobJson, watcherVars, handlerVars, bootVars, now,
                 admitted, submitVars, cancelRequested, segments, restVars, deleted>>

\* Lines 289-305: the words from counter up to i (possibly none) become a
\* caption (its "text" is the words joined by spaces), counter moves to i,
\* and if the last word measured is oversized it becomes a caption of its
\* own and counter moves past it.
PackClose ==
  /\ pack.pc = "close"
  /\ LET firstWordIndex == pack.counter
         lastWordIndex  == pack.i
         line   == [words |-> Slice(pack.captionWords, firstWordIndex, lastWordIndex)]
         single == [words |-> <<pack.captionWords[lastWordIndex + 1]>>]
     IN  pack' =
           IF pack.wordWidth > pack.captionReservedWidth
             THEN [pack EXCEPT !.captionsList = Append(Append(@, line), single),
                               !.counter = lastWordIndex + 1,
                               !.pc = "outer"]
             ELSE [pack EXCEPT !.captionsList = Append(@, line),
                               !.counter = lastWordIndex,
                               !.pc = "outer"]
  /\ UNCHANGED <<history, jobJson, watcherVars, handlerVars, bootVars, now,
                 admitted, submitVars, cancelRequested, segments, restVars, deleted>>

\* GenerateVideo reaches the packing loop with any word list, budget and
\* space width.
InitCaptions ==
  /\ ServerUp
  /\ request = NoRequest
  /\ reply = NoReply
  /\ cancelRequested = {}
  /\ segments = NoSegments
  /\ RestIdle
  /\ deleted = {}
  /\ pack \in {StartPacking(ws, budget, space) :
                 ws \in WordWidths, budget \in 0..MaxBudget,
                 space \in 0..MaxSpaceWidth}

NextCaptions == PackOuter \/ PackInner \/ PackClose

SpecCaptions == InitCaptions /\ [][NextCaptions]_vars

\* The loop's thread keeps running.
SpecCaptionsFair == SpecCaptions /\ WF_vars(NextCaptions)

\* ------------------------------------------- GenerateVideo: background clips
\* Durations are counted in a unit that divides every duration in play, so
\* audioDuration / maxLengthPerVideo is the quotient of two whole numbers.
MaxDuration == 6
MaxSegmentLength == 3
MaxClips == 2
MaxClipLength == 3

Clips == 1..MaxClips

\* The stored clips: the duration FFprobe reports for each file of the
\* videos directory.
Libraries == [Clips -> 1..MaxClipLength]

\* random.shuffle: every order of the set S.
Shuffles(S) ==
  {q \in [1..Cardinality(S) -> S] : \A a, b \in DOMAIN q : a # b => q[a] # q[b]}

\* GetCurrentVideosList: the stored clips at least requiredDuration long, in
\* any order.
GetCurrentVideosList(videos, requiredDuration) ==
  Shuffles({c \in DOMAIN videos : videos[c] >= requiredDuration})

\* Line 341: int() truncates, which for a quotient of positive numbers is
\* the floor.
RequiredNoOfVideos(audioDuration, maxLengthPerVideo) ==
  (audioDuration \div maxLengthPerVideo) + 1

\* Python's s[:n] for n >= 0.
Take(s, n) == SubSeq(s, 1, IF n < Len(s) THEN n ELSE Len(s))

\* Lines 330-338: the narration is merged, its duration is positive, and the
\* segment length is read from the configuration.  noOfListings counts the
\* calls of GetCurrentVideosList this run has made.
StartSegments(audioDuration, maxLengthPerVideo, videos) ==
  [pc |-> "list", audioDuration |-> audioDuration,
   maxLengthPerVideo |-> maxLengthPerVideo, videos |-> videos,
   availableVideos |-> <<>>, requiredNoOfVideos |-> 0, videoFilePaths |-> <<>>,
   noOfListings |-> 0]

queueVars == <<history, jobJson, watcherVars, handlerVars, bootVars, now, admitted>>

\* Lines 340-341: the first listing and the number of segments.
ListVideos ==
  /\ segments.pc = "list"
  /\ \E listing \in GetCurrentVideosList(segments.videos, segments.maxLengthPerVideo) :
       segments' = [segments EXCEPT
                      !.availableVideos = listing,
                      !.noOfListings = @ + 1,
                      !.requiredNoOfVideos =
                         RequiredNoOfVideos(segments.audioDuration,
                                            segments.maxLengthPerVideo),
                      !.pc = "check"]
  /\ UNCHANGED <<queueVars, submitVars, cancelRequested, pack, restVars, deleted>>

\* Lines 345-349: no segment required ends the pipeline; too few clips go to
\* the replenishing loop.
CheckVideos ==
  /\ segments.pc = "check"
  /\ segments' =
       IF segments.requiredNoOfVideos <= 0
         THEN [segments EXCEPT !.pc = "failed"]
         ELSE IF segments.requiredNoOfVideos > Len(segments.availableVideos)
           THEN [segments EXCEPT !.pc = "replenish"]
           ELSE [segments EXCEPT !.pc = "select"]
  /\ UNCHANGED <<queueVars, submitVars, cancelRequested, pack, restVars, deleted>>

\* A replenishment that lists the clips again once and goes on.
ReplenishVideosOnce ==
  /\ segments.pc = "replenish"
  /\ \E newVideos \in GetCurrentVideosList(segments.videos, segments.maxLengthPerVideo) :
       segments' =
         IF newVideos = <<>>
           THEN [segments EXCEPT !.pc = "failed"]
           ELSE [segments EXCEPT !.availableVideos = @ \o newVideos,
                                 !.noOfListings = @ + 1,
                                 !.pc = "select"]
  /\ UNCHANGED <<queueVars, submitVars, cancelRequested, pack, restVars, deleted>>

\* A replenishment that lists the clips again once and gives up when they
\* are still too few.
ReplenishVideosGiveUp ==
  /\ segments.pc = "replenish"
  /\ \E newVideos \in GetCurrentVideosList(segments.videos, segments.maxLengthPerVideo) :
       segments' =
         IF segments.requiredNoOfVideos > Len(segments.availableVideos \o newVideos)
           THEN [segments EXCEPT !.noOfListings = @ + 1, !.pc = "failed"]
           ELSE [segments EXCEPT !.availableVideos = @ \o newVideos,
                                 !.noOfListings = @ + 1,
                                 !.pc = "select"]
  /\ UNCHANGED <<queueVars, submitVars, cancelRequested, pack, restVars, deleted>>

\* Lines 350-357: one pass of the replenishing while: the clips are listed
\* again and appended; an empty listing ends the pipeline.
ReplenishVideos ==
  /\ segments.pc = "replenish"
  /\ IF segments.requiredNoOfVideos > Len(segments.availableVideos)
       THEN \E newVideos \in GetCurrentVideosList(segments.videos,
                                                  segments.maxLengthPerVideo) :
              segments' =
                IF newVideos = <<>>
                  THEN [segments EXCEPT !.noOfListings = @ + 1, !.pc = "failed"]
                  ELSE [segments EXCEPT !.availableVideos = @ \o newVideos,
                                        !.noOfListings = @ + 1]
       ELSE segments' = [segments EXCEPT !.pc = "select"]
  /\ UNCHANGED <<queueVars, submitVars, cancelRequested, pack, restVars, deleted>>

\* Line 363: the clips handed to TrimConcatVideoFiles, which trims each to
\* maxLengthPerVideo and joins them into the background track.
SelectVideos ==
  /\ segments.pc = "select"
  /\ segments' = [segments EXCEPT
                    !.videoFilePaths = Take(segments.availableVideos,
                                            segments.requiredNoOfVideos),
                    !.pc = "selected"]
  /\ UNCHANGED <<queueVars, submitVars, cancelRequested, pack, restVars, deleted>>

\* GenerateVideo reaches the choice of clips with any positive narration
\* duration, segment length and stored clips.
InitSegments ==
  /\ ServerUp
  /\ request = NoRequest
  /\ reply = NoReply
  /\ cancelRequested = {}
  /\ pack = NoPacking
  /\ RestIdle
  /\ deleted = {}
  /\ segments \in {StartSegments(d, m, videos) :
                     d \in 1..MaxDuration, m \in 1..MaxSegmentLength,
                     videos \in Libraries}

NextSegments == ListVideos \/ CheckVideos \/ ReplenishVideos \/ SelectVideos

SpecSegments == InitSegments /\ [][NextSegments]_vars

\* ------------------------------------------------------ DELETE /jobs/<id>
\* JobStatusHistory.delete: the key is removed if present.
delete(h, j) == SelectSeq(h, LAMBDA item : item.id # j)

\* Server.py 453-475, run without interruption by one request thread, for
\* a job id the map holds (an unknown id is answered 404 and nothing
\* changes): the job directory is removed with everything in it, the id is
\* removed from the map, and the answer is 200.
deleteProcessedVideo ==
  /\ phase = "up"
  /\ InFlight = {}
  /\ \E j \in keys(history) :
       /\ jobJson' = [jobJson EXCEPT ![j] = "nodir"]
       /\ history' = delete(history, j)
       /\ deleted' = deleted \cup {j}
  /\ UNCHANGED <<watcherVars, handlerVars, bootVars, now, admitted, submitVars,
                 cancelRequested, pack, segments, restVars>>

NextDelete ==
  \/ \E w \in Watchers : WatcherStep(w)
  \/ \E h \in JobThreads : PostJobStep(h)
  \/ deleteProcessedVideo
  \/ ClockTick

SpecDelete == InitSubmit /\ [][NextDelete]_vars

\* ------------------------------------------------- GET /jobs/<id>/result
\* What open() and json.load() make of job.json: no file, a file that is not
\* JSON, or a JSON object with its status field.
JobJsonStates == {"nodir", "nofile", "invalid"} \cup Status

\* <jobId>_Final.<format> in the job directory.
FinalFileStates == {"missing", "unreadable", "empty", "ok"}

\* Lines 406-449 with the code of line 431 left out: the file is sent
\* whatever status job.json holds.
ResultCodeAnyStatus(inMap, json, file) ==
  IF ~inMap THEN 404
  ELSE IF json \in {"nodir", "nofile"} THEN 404
  ELSE IF json = "invalid" THEN 500
  ELSE IF file = "missing" THEN 404
  ELSE IF file = "unreadable" THEN 500
  ELSE IF file = "empty" THEN 500
  ELSE 200

\* Lines 406-449: the tests in the order the handler makes them.
ResultCode(inMap, json, file) ==
  IF ~inMap THEN 404
  ELSE IF json \in {"nodir", "nofile"} THEN 404
  ELSE IF json = "invalid" THEN 500
  ELSE IF json # "completed" THEN 400
  ELSE IF file = "missing" THEN 404
  ELSE IF file = "unreadable" THEN 500
  ELSE IF file = "empty" THEN 500
  ELSE 200

\* The handler, run by one request thread for any job id: it reads the map,
\* job.json and the final file, and answers.
getProcessedVideo ==
  /\ phase = "up"
  /\ InFlight = {}
  /\ \E j \in JobIds :
       LET inMap == j \in keys(history)
           file  == IF jobJson[j] = "nodir" THEN "missing" ELSE download.finalFile
       IN  download' = [download EXCEPT
                          !.jobId = j, !.inMap = inMap, !.json = jobJson[j],
                          !.file = file,
                          !.code = ResultCode(inMap, jobJson[j], file)]
  /\ UNCHANGED <<queueVars, submitVars, cancelRequested, pack, segments, run,
                 overlay, split, deleted>>

\* A store with at most one job known to the map, any job.json and any
\* final file in its directory.
InitDownload ==
  /\ QueueStarted
  /\ history \in {<<>>} \cup {<<[id |-> jobId(1, 0), st |-> st]>> : st \in Status}
  /\ jobJson \in {[j \in JobIds |-> IF j = jobId(1, 0) THEN json ELSE "nodir"] :
                    json \in JobJsonStates}
  /\ request = NoRequest
  /\ reply = NoReply
  /\ cancelRequested = {}
  /\ pack = NoPacking
  /\ segments = NoSegments
  /\ run = NoRun
  /\ overlay = NoOverlay
  /\ split = NoSplit
  /\ deleted = {}
  /\ download \in {[code |-> 0, jobId |-> NoJob, inMap |-> FALSE, json |-> "nodir",
                     file |-> "missing", finalFile |-> f] : f \in FinalFileStates}

NextDownload == getProcessedVideo

SpecDownload == InitDownload /\ [][NextDownload]_vars

\* ------------------------------------------- AddCaptionsToVideo: filters
\* Times are counted in ticks of 0.05 s, so a tenth of a second is 2 ticks.
\* Widths are counted in pixels.
MaxCaptions == 2
MaxLineWords == 2
MaxTick == 3
MaxCharsWidth == 1
videoWidth == 8

\* np.round(t, 1): the nearest tenth of a second, a tie going to the even
\* tenth.
Round1(t) ==
  IF t % 2 = 0 THEN t
  ELSE IF ((t - 1) \div 2) % 2 = 0 THEN t - 1 ELSE t + 1

\* A word of a caption: when it is spoken and how wide it is drawn.
TimedWords ==
  {[start |-> a, end |-> b, width |-> wd] :
     a \in 0..MaxTick, b \in 0..MaxTick, wd \in 0..MaxCharsWidth}

\* The words of one caption: none (a caption the packing loop left empty) or
\* words spoken one after the other.
CaptionLines ==
  {ws \in UNION {[1..n -> TimedWords] : n \in 0..MaxLineWords} :
     /\ \A k \in DOMAIN ws : ws[k].start <= ws[k].end
     /\ \A k \in DOMAIN ws : k > 1 => ws[k - 1].end <= ws[k].start}

\* captionsList: captions in narration order; a word is known by its caption
\* and its place in it.
CaptionLists ==
  {cs \in UNION {[1..n -> CaptionLines] : n \in 1..MaxCaptions} :
     \A k \in DOMAIN cs : k > 1 =>
       (cs[k - 1] = <<>> \/ cs[k] = <<>>
        \/ cs[k - 1][Len(cs[k - 1])].end <= cs[k][1].start)}

RECURSIVE SumWidths(_)
SumWidths(ws) == IF ws = <<>> THEN 0 ELSE Head(ws).width + SumWidths(Tail(ws))

\* Lines 1085-1086: the loop's variables before the first caption.
StartOverlay(cs, space) ==
  [pc |-> "caption", captionsList |-> cs, spaceWidth |-> space,
   drawtextFilters |-> <<>>, j |-> 0, i |-> 0, firstStart |-> 0, lastEnd |-> 0,
   twiceStartX |-> 0, currentX |-> 0]

\* Lines 1100-1118: the next caption; one without words is passed over; of
\* the others the window and the left edge are computed (the left edge is
\* kept doubled, remainingWidth / 2.0 being half a pixel at times).
OverlayCaption ==
  /\ overlay.pc = "caption"
  /\ overlay' =
       IF overlay.j < Len(overlay.captionsList)
         THEN LET words == overlay.captionsList[overlay.j + 1]
                  requiredWidth ==
                    SumWidths(words) + (Len(words) - 1) * overlay.spaceWidth
              IN  IF words = <<>>
                    THEN [overlay EXCEPT !.j = @ + 1]
                    ELSE [overlay EXCEPT
                            !.firstStart = Round1(words[1].start),
                            !.lastEnd = Round1(words[Len(words)].end),
                            !.twiceStartX = videoWidth - requiredWidth,
                            !.currentX = 0, !.i = 0, !.pc = "word"]
         ELSE [overlay EXCEPT !.pc = "done"]
  /\ UNCHANGED <<queueVars, submitVars, cancelRequested, pack, segments, run,
                 download, split, deleted>>

\* Lines 1121-1179: one word: its window is rounded, its position taken, and
\* the normal filter and the highlight filter are appended.
OverlayWord ==
  /\ overlay.pc = "word"
  /\ LET words == overlay.captionsList[overlay.j + 1] IN
       IF overlay.i < Len(words)
         THEN LET wordInfo == words[overlay.i + 1]
                  twiceXPos == overlay.twiceStartX + 2 * overlay.currentX
                  normalFilter ==
                    [kind |-> "normal", caption |-> overlay.j + 1,
                     word |-> overlay.i + 1, twiceX |-> twiceXPos,
                     from |-> overlay.firstStart, to |-> overlay.lastEnd]
                  highlightFilter ==
                    [kind |-> "highlight", caption |-> overlay.j + 1,
                     word |-> overlay.i + 1, twiceX |-> twiceXPos,
                     from |-> Round1(wordInfo.start), to |-> Round1(wordInfo.end)]
              IN  overlay' = [overlay EXCEPT
                                !.currentX = @ + wordInfo.width + overlay.spaceWidth,
                                !.drawtextFilters =
                                   Append(Append(@, normalFilter), highlightFilter),
                                !.i = @ + 1]
         ELSE overlay' = [overlay EXCEPT !.j = @ + 1, !.pc = "caption"]
  /\ UNCHANGED <<queueVars, submitVars, cancelRequested, pack, segments, run,
                 download, split, deleted>>

\* AddCaptionsToVideo is called with any captions.
InitOverlay ==
  /\ ServerUp
  /\ request = NoRequest
  /\ reply = NoReply
  /\ cancelRequested = {}
  /\ pack = NoPacking
  /\ segments = NoSegments
  /\ run = NoRun
  /\ download = NoDownload
  /\ split = NoSplit
  /\ deleted = {}
  /\ overlay \in {StartOverlay(cs, space) :
                    cs \in CaptionLists, space \in 0..MaxSpaceWidth}

NextOverlay == OverlayCaption \/ OverlayWord

SpecOverlay == InitOverlay /\ [][NextOverlay]_vars

\* ------------------------------------------------- POST /split-audio
\* Durations are counted in a unit that divides every duration in play.
\* float() accepts any number for segmentDuration, zero and negatives
\* included; the loop is followed for at most MaxParts parts.
MinSegmentDuration == 0 - 1
MaxSegmentDuration == 3
MaxTotalDuration == 4
MaxParts == 5

\* min(a, b) of Python for numbers.
min(a, b) == IF b < a THEN b ELSE a

\* Lines 904-918: the file is stored, its duration is known, and the loop's
\* variables are set.
StartSplit(segmentDuration, totalDur) ==
  [pc |-> "test", segmentDuration |-> segmentDuration, totalDur |-> totalDur,
   parts |-> <<>>, start |-> 0, idx |-> 0]

\* Line 919: the test of the while; after the loop the parts are zipped and
\* the link is returned (lines 928-942).
SplitTest ==
  /\ split.pc = "test"
  /\ split' = IF split.start < split.totalDur
                THEN [split EXCEPT !.pc = "trim"]
                ELSE [split EXCEPT !.pc = "done"]
  /\ UNCHANGED <<queueVars, submitVars, cancelRequested, pack, segments, run,
                 download, overlay, deleted>>

\* Lines 920-927: one part: ffmpeg is run from start to end; if it fails or
\* leaves no file the handler raises and answers 500 (lines 943-948), else
\* the part is recorded and start moves to end.
SplitTrim ==
  /\ split.pc = "trim"
  /\ split.idx < MaxParts
  /\ \E isDone \in BOOLEAN :
       LET end == min(split.start + split.segmentDuration, split.totalDur) IN
         split' = IF isDone
                    THEN [split EXCEPT
                            !.parts = Append(@, [start |-> split.start, end |-> end]),
                            !.start = end, !.idx = @ + 1, !.pc = "test"]
                    ELSE [split EXCEPT !.pc = "error"]
  /\ UNCHANGED <<queueVars, submitVars, cancelRequested, pack, segments, run,
                 download, overlay, deleted>>

\* splitAudio reaches its loop with any segmentDuration and any positive
\* total duration.
InitSplit ==
  /\ ServerUp
  /\ request = NoRequest
  /\ reply = NoReply
  /\ cancelRequested = {}
  /\ pack = NoPacking
  /\ segments = NoSegments
  /\ run = NoRun
  /\ download = NoDownload
  /\ overlay = NoOverlay
  /\ deleted = {}
  /\ split \in {StartSplit(sd, td) :
                  sd \in MinSegmentDuration..MaxSegmentDuration,
                  td \in 1..MaxTotalDuration}

NextSplit == SplitTest \/ SplitTrim

SpecSplit == InitSplit /\ [][NextSplit]_vars

\* -------------------------------------------- ProcessJob seen from inside
\* One ProcessJob call for one job: its status in the map, its job.json and
\* the files GenerateVideo leaves in its directory.
MaxChunks == 2

\* The files of the job directory besides job.json.
RawFile(i) == <<"chunk", i>>
NormalizedFile(i) == <<"Normalized chunk", i>>
MergedAudio == <<"Merged audio", 0>>
MergedVideo == <<"Merged video", 0>>
NoCaptions == <<"NoCaptions", 0>>
Final == <<"Final", 0>>

\* The ffmpeg steps of GenerateVideo in order, and the file each writes.
TranscodeSteps == <<"ConcatAudioFiles", "TrimConcatVideoFiles",
                    "MergeAudioVideoFiles", "AddCaptionsToVideo">>
OutputOf(step) ==
  CASE step = "ConcatAudioFiles" -> MergedAudio
    [] step = "TrimConcatVideoFiles" -> MergedVideo
    [] step = "MergeAudioVideoFiles" -> NoCaptions
    [] step = "AddCaptionsToVideo" -> Final

\* UpdateJobStatus(jobId, status) with its failures: a missing job.json
\* returns silently, one that is not JSON raises at json.load, and the write
\* can raise (no space, no permission) leaving the file as it was.
UpdateJobStatusOutcomes(json, status) ==
  IF json = "nofile" THEN {[json |-> json, raised |-> FALSE]}
  ELSE IF json = "invalid" THEN {[json |-> json, raised |-> TRUE]}
  ELSE {[json |-> status, raised |-> FALSE], [json |-> json, raised |-> TRUE]}

\* Lines 427-430 of the clean-up: for each chunk the path GenerateStoreSpeech
\* returned (the normalized file if normalization made one, else the raw
\* file) is removed if it exists, then the same path without "Normalized_";
\* for a raw path that is the file just removed, os.remove raises and the
\* except clause of line 431 ends the clean-up.
RECURSIVE RemoveChunks(_, _, _)
RemoveChunks(files, i, normalized) ==
  IF i > Len(normalized) THEN files
  ELSE IF normalized[i]
    THEN RemoveChunks(files \ {NormalizedFile(i), RawFile(i)}, i + 1, normalized)
    ELSE files \ {RawFile(i)}

\* Lines 421-433.
CleanUp(files, normalized) ==
  RemoveChunks(files \ {MergedAudio, MergedVideo, NoCaptions}, 1, normalized)

StartRun(json) ==
  [pc |-> "p36", status |-> "queued", json |-> json, files |-> {},
   normalized |-> <<>>, steps |-> <<>>, failed |-> "none", ended |-> "no"]

\* Lines 36-37, outside the try: the map says "processing", then job.json
\* is rewritten; an exception of UpdateJobStatus leaves ProcessJob.
RunEnter ==
  /\ run.pc = "p36"
  /\ \E o \in UpdateJobStatusOutcomes(run.json, "processing") :
       run' = [run EXCEPT !.status = "processing", !.json = o.json,
                          !.pc = IF o.raised THEN "end" ELSE "p41",
                          !.ended = IF o.raised THEN "raised" ELSE "no"]
  /\ UNCHANGED <<queueVars, submitVars, cancelRequested, pack, segments,
                 download, overlay, split, deleted>>

\* Lines 41-43: job.json is read inside the try.
RunReadJob ==
  /\ run.pc = "p41"
  /\ run' = [run EXCEPT !.pc = IF run.json \in {"nofile", "invalid"}
                                 THEN "except" ELSE "speech"]
  /\ UNCHANGED <<queueVars, submitVars, cancelRequested, pack, segments,
                 download, overlay, split, deleted>>

\* GenerateVideo up to the narration (VideoCreatorHelper.py 159-178,
\* TextToSpeechHelper.py 191-267): the text is spoken in chunks, each chunk
\* stored and, where normalization succeeds, stored again normalized; an
\* unsupported voice or language raises, no chunk at all returns False.
RunSpeech ==
  /\ run.pc = "speech"
  /\ \/ run' = [run EXCEPT !.pc = "except"]
     \/ run' = [run EXCEPT !.pc = "p76"]
     \/ \E n \in 1..MaxChunks : \E normalized \in [1..n -> BOOLEAN] :
          run' = [run EXCEPT
                    !.normalized = normalized,
                    !.files = {RawFile(i) : i \in 1..n}
                                \cup {NormalizedFile(i) : i \in {k \in 1..n : normalized[k]}},
                    !.pc = "transcode"]
  /\ UNCHANGED <<queueVars, submitVars, cancelRequested, pack, segments,
                 download, overlay, split, deleted>>

\* An ffmpeg step that removes the job's files when it fails.
RunTranscodeCleaning ==
  /\ run.pc = "transcode"
  /\ LET step == TranscodeSteps[Len(run.steps) + 1] IN
       \E isDone \in BOOLEAN :
         run' = IF isDone
                  THEN [run EXCEPT !.steps = Append(@, step),
                                   !.files = @ \cup {OutputOf(step)},
                                   !.pc = IF step = "ConcatAudioFiles" THEN "clips"
                                          ELSE IF step = "AddCaptionsToVideo"
                                            THEN "cleanup" ELSE "transcode"]
                  ELSE [run EXCEPT !.steps = Append(@, step), !.failed = step,
                                   !.files = {}, !.pc = "p76"]
  /\ UNCHANGED <<queueVars, submitVars, cancelRequested, pack, segments,
                 download, overlay, split, deleted>>

\* The next ffmpeg step of GenerateVideo (lines 319-328, 368-381, 385-396,
\* 403-414): if it succeeds its output file is there and the pipeline goes
\* on; if it fails GenerateVideo returns (False, None) at once.
RunTranscode ==
  /\ run.pc = "transcode"
  /\ LET step == TranscodeSteps[Len(run.steps) + 1] IN
       \E isDone \in BOOLEAN :
         run' = IF isDone
                  THEN [run EXCEPT !.steps = Append(@, step),
                                   !.files = @ \cup {OutputOf(step)},
                                   !.pc = IF step = "ConcatAudioFiles" THEN "clips"
                                          ELSE IF step = "AddCaptionsToVideo"
                                            THEN "cleanup" ELSE "transcode"]
                  ELSE [run EXCEPT !.steps = Append(@, step), !.failed = step,
                                   !.pc = "p76"]
  /\ UNCHANGED <<queueVars, submitVars, cancelRequested, pack, segments,
                 download, overlay, split, deleted>>

\* Lines 330-357: the narration's duration and the background clips: the
\* pipeline goes on, returns (False, None) (no duration, no clip), or raises
\* (GetFileDuration returned None).
RunSelectClips ==
  /\ run.pc = "clips"
  /\ \E next \in {"transcode", "p76", "except"} : run' = [run EXCEPT !.pc = next]
  /\ UNCHANGED <<queueVars, submitVars, cancelRequested, pack, segments,
                 download, overlay, split, deleted>>

\* Lines 421-440: the clean-up, then GenerateVideo returns (True, name).
RunCleanUp ==
  /\ run.pc = "cleanup"
  /\ run' = [run EXCEPT !.files = CleanUp(run.files, run.normalized),
                        !.pc = "p83"]
  /\ UNCHANGED <<queueVars, submitVars, cancelRequested, pack, segments,
                 download, overlay, split, deleted>>

\* Lines 83-84, inside the try, then the function's end.
RunCompleted ==
  /\ run.pc = "p83"
  /\ \E o \in UpdateJobStatusOutcomes(run.json, "completed") :
       run' = [run EXCEPT !.status = "completed", !.json = o.json,
                          !.pc = IF o.raised THEN "except" ELSE "end",
                          !.ended = IF o.raised THEN "no" ELSE "returned"]
  /\ UNCHANGED <<queueVars, submitVars, cancelRequested, pack, segments,
                 download, overlay, split, deleted>>

\* Lines 75-78, inside the try: GenerateVideo returned False; jsonify, called
\* on the watcher's thread, returns or raises.
RunNotGenerated ==
  /\ run.pc = "p76"
  /\ \E o \in UpdateJobStatusOutcomes(run.json, "failed") : \E jsonifyRaises \in BOOLEAN :
       run' = [run EXCEPT !.status = "failed", !.json = o.json,
                          !.pc = IF o.raised \/ jsonifyRaises THEN "except" ELSE "end",
                          !.ended = IF o.raised \/ jsonifyRaises THEN "no" ELSE "returned"]
  /\ UNCHANGED <<queueVars, submitVars, cancelRequested, pack, segments,
                 download, overlay, split, deleted>>

\* Lines 87-93, the except clause: an exception in it leaves ProcessJob.
RunExcept ==
  /\ run.pc = "except"
  /\ \E o \in UpdateJobStatusOutcomes(run.json, "failed") : \E jsonifyRaises \in BOOLEAN :
       run' = [run EXCEPT !.status = "failed", !.json = o.json, !.pc = "end",
                          !.ended = IF o.raised \/ jsonifyRaises
                                      THEN "raised" ELSE "returned"]
  /\ UNCHANGED <<queueVars, submitVars, cancelRequested, pack, segments,
                 download, overlay, split, deleted>>

\* The watcher hands ProcessJob a queued job whose job.json is there, is
\* not there yet, or does not parse.
InitRun ==
  /\ ServerUp
  /\ request = NoRequest
  /\ reply = NoReply
  /\ cancelRequested = {}
  /\ pack = NoPacking
  /\ segments = NoSegments
  /\ download = NoDownload
  /\ overlay = NoOverlay
  /\ split = NoSplit
  /\ deleted = {}
  /\ run \in {StartRun(json) : json \in {"queued", "nofile", "invalid"}}

NextRun ==
  \/ RunEnter
  \/ RunReadJob
  \/ RunSpeech
  \/ RunTranscode
  \/ RunSelectClips
  \/ RunCleanUp
  \/ RunCompleted
  \/ RunNotGenerated
  \/ RunExcept

SpecRun == InitRun /\ [][NextRun]_vars

\* ------------------------------------------------------------- properties
\* The status of job j in the map h, "absent" when the map has no such key.
statusOf(h, j) == get(h, j, "absent")

\* The status job.json holds for j, "absent" when there is no job.json.
durable(j) == IF jobJson[j] \in {"nodir", "nofile"} THEN "absent" ELSE jobJson[j]

\* The transitions of the job state machine, submission included.
Transitions ==
  {<<"absent", "queued">>, <<"queued", "processing">>,
   <<"processing", "completed">>, <<"processing", "failed">>}

\* Nothing is under way: the server is up, no request is being handled and
\* no watcher thread runs.
AtRest ==
  /\ phase = "up"
  /\ InFlight = {}
  /\ \A w \in Watchers : ~is_alive(w)

\* The thread of watcher w leaves run() in this step.
Exits(w) ==
  /\ phase = "up" /\ phase' = "up"
  /\ wpc[w] = "sleep"
  /\ wpc'[w] \in {"dead", "none"}

\* C1: at every instant the number of jobs whose status is "processing" is
\* at most maxJobs.
C1_ConcurrencyCeiling == noOfBeingProcessedJobs(history) <= maxJobs

\* C2: no two ProcessJob calls for the same job id run at the same time, and
\* within one process ProcessJob is not called for a job id it was already
\* entered for.
C2_OneRunPerJob ==
  /\ \A v, w \in Watchers :
       (v # w /\ wpc[v] \in InProcessJob /\ wpc[w] \in InProcessJob)
         => wjob[v] # wjob[w]
  /\ \A w \in Watchers : wpc[w] = "p36" => wjob[w] \notin admitted

\* C3: a queued job is run without a further request being needed: whenever
\* nothing is under way any more, no job is left "queued".
C3_QueuedJobsAreRun == AtRest => ~HasQueued(history)

\* The recovery loop has visited every job directory.
RecoveryDone == phase = "recover" /\ todo = {}

C5_StatusMachine ==
  [][(phase = "up" /\ phase' = "up") =>
       \A j \in JobIds :
         (/\ statusOf(history, j) \in Status \cup {"absent"}
          /\ statusOf(history', j) # statusOf(history, j)) =>
           /\ <<statusOf(history, j), statusOf(history', j)>> \in Transitions
           /\ statusOf(history', j) # "queued" => hpc' = hpc]_vars

\* C6: at every instant the status of a job in the map equals the status in
\* its job.json or is exactly one transition ahead of it.
C6_MemoryAtMostOneAhead ==
  \A i \in DOMAIN history :
    history[i].st \in Status =>
      \/ history[i].st = durable(history[i].id)
      \/ <<durable(history[i].id), history[i].st>> \in Transitions

\* C7 as claimed: the status a 200 answer of getJobStatus carries is the
\* status job.json holds when the answer is made.
C7_QueryReturnsDurable ==
  \A h \in JobThreads : hpc[h] = "g200" => hstatus[h] = hdisk[h]

\* C7 as amended: the status a 200 answer of getJobStatus carries is the
\* status the in-memory map held for the job when the handler read it; the
\* later read of job.json does not change it.
C7_QueryReturnsMemory ==
  [][\A h \in JobThreads :
       /\ (hpc[h] = "idle" /\ hpc'[h] = "g357") =>
            hstatus'[h] = statusOf(history, hjob'[h])
       /\ (hpc[h] = "g357" /\ hpc'[h] = "g200") =>
            hstatus'[h] = hstatus[h] /\ hjob'[h] = hjob[h]]_vars

C7_Witness ==
  \E h \in JobThreads :
    /\ hpc[h] = "g200"
    /\ hstatus[h] = "processing"
    /\ hdisk[h] = "queued"

\* C8: jobs enter "processing" in insertion order: while a job is
\* "processing" no job inserted before it is still "queued", and with
\* maxJobs = 1 none inserted before it is "processing" either.
C8_InsertionOrder ==
  \A i, k \in DOMAIN history :
    (i < k /\ history[k].st = "processing") =>
      /\ history[i].st # "queued"
      /\ maxJobs = 1 => history[i].st # "processing"

\* Some job is "queued" and the request that submitted it has returned.
HasSubmittedQueued ==
  \E i \in DOMAIN history :
    /\ history[i].st = "queued"
    /\ \A h \in Handlers : hpc[h] # "idle" => hjob[h] # history[i].id

\* C9: a watcher thread leaves its loop only at the tick limit and only at
\* the end of an idle tick: never at the end of a tick in which it ran a job.
C9_TickLimitOnlyWhenIdle ==
  [][\A w \in Watchers :
       Exits(w) => wcounter'[w] >= MAX_TIMEOUT /\ wjob[w] = NoJob]_vars

\* C10: a watcher whose ProcessJob call has just ended with the job "failed"
\* does not leave its loop while a submitted job is queued.
C10_LoopSurvivesFailure ==
  [][\A w \in Watchers :
       (/\ wjob[w] # NoJob
        /\ statusOf(history, wjob[w]) = "failed"
        /\ HasSubmittedQueued) => ~Exits(w)]_vars

\* C11: a watcher thread starts a job only when no job started earlier in
\* this process is still "processing", whatever maxJobs is: ProcessJob runs
\* inside the polling loop and returns only when its job is completed or
\* failed.
C11_OneJobAtATimePerWatcher ==
  [][\A w \in Watchers :
       (wpc[w] = "scan" /\ wpc'[w] = "p36") =>
         \A j \in admitted : statusOf(history, j) # "processing"]_vars

C11_Witness ==
  /\ maxJobs = 2
  /\ HasQueued(history)
  /\ \E w \in Watchers :
       /\ wpc[w] \in InProcessJob
       /\ statusOf(history, wjob[w]) = "processing"
       /\ FirstQueued(history) # wjob[w]

\* C12: a submission gets a job id of its own: when postJob derives the id
\* of a new job, no job.json written for an earlier submission exists under
\* that id and the map holds no job under it.
C12_DistinctJobIds ==
  [][\A h \in JobThreads :
       (hpc[h] = "idle" /\ hpc'[h] \in {"p310", "p314"}) =>
         /\ jobJson[hjob'[h]] \notin Status
         /\ hjob'[h] \notin keys(history)]_vars

\* The request has an input error: one of those postJob tests for, or a
\* language or voice the text-to-speech helper does not support.
HasInputError(req) ==
  \/ Rejected(req)
  \/ req.language = "unsupported"
  \/ req.voice = "unsupported"

\* C13: a submission with an input error is answered 400 and leaves the
\* status map and the store directory as they were.
C13_InputErrorsRejected ==
  [][(/\ <<request, reply>>' # <<request, reply>>
      /\ HasInputError(request')) =>
       /\ reply'.code = 400
       /\ history' = history
       /\ jobJson' = jobJson]_vars

\* C14: the scheduler never starts the pipeline of a job whose cancellation
\* flag was recorded while it was "queued": when a watcher reaches such a job
\* it does not call ProcessJob for it.
C14_CanceledJobNeverRuns ==
  [][\A w \in Watchers :
       (wpc[w] = "scan" /\ wpc'[w] = "p36") =>
         wjob'[w] \notin cancelRequested]_vars

\* The words of all captions, in order.
RECURSIVE Concat(_)
Concat(list) ==
  IF list = <<>> THEN <<>> ELSE Head(list).words \o Concat(Tail(list))

RECURSIVE Sum(_)
Sum(ws) == IF ws = <<>> THEN 0 ELSE Head(ws).width + Sum(Tail(ws))

\* The widest word of the input: 0 for no words.
MaxWidthOf(ws) ==
  IF ws = <<>> THEN 0
  ELSE CHOOSE m \in {ws[k].width : k \in DOMAIN ws} :
         \A k \in DOMAIN ws : ws[k].width <= m

PackingDone == pack.pc = "done"

\* C15: when the budget is at least the widest word, the words of all
\* captions the packing loop produced, in order, are exactly the input words.
C15_PackingKeepsWords ==
  (PackingDone /\ pack.captionReservedWidth >= MaxWidthOf(pack.captionWords)) =>
    Concat(pack.captionsList) = pack.captionWords

C15_Witness ==
  /\ PackingDone
  /\ pack.captionReservedWidth >= MaxWidthOf(pack.captionWords)
  /\ Len(pack.captionWords) = MaxWords
  /\ Len(pack.captionsList) >= 2
  /\ \E k \in DOMAIN pack.captionsList : Len(pack.captionsList[k].words) >= 2

\* The width a caption takes when drawn: its words and one space between
\* neighbours (FFMPEGHelper.AddCaptionsToVideo's requiredWidth).
RequiredWidth(words, space) ==
  Sum(words) + (IF Len(words) > 1 THEN (Len(words) - 1) * space ELSE 0)

\* C16: every caption the packing loop produced, except a caption that is a
\* single oversized word, takes at most the budget when drawn: the widths of
\* its words plus one space between neighbours.
C16_LineWithinBudget ==
  \A k \in DOMAIN pack.captionsList :
    LET words == pack.captionsList[k].words IN
      (Len(words) = 1 /\ words[1].width > pack.captionReservedWidth)
      \/ RequiredWidth(words, pack.spaceWidth) <= pack.captionReservedWidth

\* C17: every oversized word has a caption of its own, and no caption holds
\* an oversized word together with another word.
C17_OversizedWordAlone ==
  PackingDone =>
    /\ \A n \in DOMAIN pack.captionWords :
         pack.captionWords[n].width > pack.captionReservedWidth =>
           \E k \in DOMAIN pack.captionsList :
             pack.captionsList[k].words = <<pack.captionWords[n]>>
    /\ \A k \in DOMAIN pack.captionsList :
         \A m \in DOMAIN pack.captionsList[k].words :
           pack.captionsList[k].words[m].width > pack.captionReservedWidth =>
             Len(pack.captionsList[k].words) = 1

C17_Witness ==
  /\ PackingDone
  /\ Len(pack.captionWords) = 3
  /\ pack.captionWords[1].width <= pack.captionReservedWidth
  /\ pack.captionWords[2].width > pack.captionReservedWidth
  /\ pack.captionWords[3].width > pack.captionReservedWidth
  /\ pack.captionWords[1].width > 0

\* C18: the packing loop ends for every word list and budget, and every
\* pass of the outer loop moves counter forward by at least one word.
C18_PackingTerminates ==
  /\ <>PackingDone
  /\ [][pack.pc = "close" => pack'.counter > pack.counter]_vars

C18_Witness ==
  /\ PackingDone
  /\ Len(pack.captionWords) = MaxWords
  /\ \E n \in DOMAIN pack.captionWords : pack.captionWords[n].width = 0
  /\ \A n \in DOMAIN pack.captionWords :
       pack.captionWords[n].width = 0
       \/ pack.captionWords[n].width > pack.captionReservedWidth

\* GenerateVideo has chosen the clips and goes on to TrimConcatVideoFiles.
ClipsSelected == segments.pc = "selected"

\* C19: when the pipeline goes on to build the background track, as many
\* clips are selected as segments are required, and that many segments of
\* maxLengthPerVideo cover the narration.
C19_SelectedClipsCoverNarration ==
  ClipsSelected =>
    /\ Len(segments.videoFilePaths) = segments.requiredNoOfVideos
    /\ Len(segments.videoFilePaths) * segments.maxLengthPerVideo
         >= segments.audioDuration

C19_Witness ==
  /\ ClipsSelected
  /\ Len(segments.availableVideos) >=
       3 * Cardinality({c \in Clips : segments.videos[c] >= segments.maxLengthPerVideo})
  /\ Len(segments.videoFilePaths) >= 3
  /\ segments.audioDuration % segments.maxLengthPerVideo # 0

\* ceil(a / b) for whole a >= 0 and b > 0.
Ceil(a, b) == (a + b - 1) \div b

\* C20: the number of segments required is ceil(duration / maxLengthPerVideo)
\* for every positive narration duration, exact multiples of
\* maxLengthPerVideo included.
C20_RequiredIsCeiling ==
  segments.pc \in {"check", "replenish", "select", "selected", "failed"} =>
    segments.requiredNoOfVideos =
      Ceil(segments.audioDuration, segments.maxLengthPerVideo)

\* The stored clips GetCurrentVideosList returns for this run.
SuitableClips ==
  {c \in Clips : segments.videos[c] >= segments.maxLengthPerVideo}

\* C21: the clips are listed at most twice for one run: the first listing
\* and one replenishment.
C21_OneReplenishment ==
  segments.pc # "idle" => segments.noOfListings <= 2

\* C21 (amended): the clips are listed again until there are as many as are
\* required; the run fails at this stage only when the listing is empty, and
\* goes on only with at least the required number of clips.
C21_ReplenishUntilEnough ==
  /\ segments.pc = "failed" =>
       SuitableClips = {} /\ segments.noOfListings = 2
  /\ segments.pc \in {"select", "selected"} =>
       /\ Len(segments.availableVideos) >= segments.requiredNoOfVideos
       /\ Len(segments.availableVideos) =
            segments.noOfListings * Cardinality(SuitableClips)

C21_Witness ==
  /\ ClipsSelected
  /\ segments.noOfListings >= 4
  /\ Cardinality(SuitableClips) = 1

\* C26: at most one QueueWatcher thread is alive at any time.
C26_OneWatcherAlive ==
  Cardinality({w \in Watchers : is_alive(w)}) <= 1

\* C29: every caption the packing loop appended holds at least one word.
C29_NoEmptyCaption ==
  \A k \in DOMAIN pack.captionsList : Len(pack.captionsList[k].words) >= 1

\* C28: a job id whose DELETE request answered 200 is absent from the
\* status map, and stays absent until the same id is submitted again.
C28_DeletedStaysAbsent ==
  \A j \in deleted : j \notin keys(history)

\* C24: the result endpoint answers 200 only for a job id of the map whose
\* job.json parses with status "completed" and whose final file exists, is
\* readable and is not empty; otherwise 404 for an unknown job, a missing
\* job.json or a missing file, 400 for another status, 500 for an invalid
\* job.json or an empty or unreadable file; and it changes no job state.
C24_ResultOnlyWhenCompleted ==
  /\ [](download.code # 0 =>
         /\ download.code \in {200, 400, 404, 500}
         /\ download.code = 200 <=>
              /\ download.inMap
              /\ download.json = "completed"
              /\ download.file = "ok"
         /\ download.code = 404 =>
              \/ ~download.inMap
              \/ download.json \in {"nodir", "nofile"}
              \/ download.file = "missing"
         /\ download.code = 400 =>
              download.json \in Status \ {"completed"}
         /\ download.code = 500 =>
              \/ download.json = "invalid"
              \/ download.file \in {"empty", "unreadable"})
  /\ [][download' # download =>
          history' = history /\ jobJson' = jobJson
          /\ download'.finalFile = download.finalFile]_vars

C24_Witness ==
  /\ download.code = 200
  /\ download.jobId \in keys(history)
  /\ jobJson[download.jobId] = "completed"
  /\ download.finalFile = "ok"

\* The words of the captions in the order the filter loop visits them, each
\* with its caption's first start and last end.
RECURSIVE WordsWithWindows(_)
WordsWithWindows(cs) ==
  IF cs = <<>> THEN <<>>
  ELSE [k \in DOMAIN Head(cs) |->
          [start |-> Head(cs)[k].start, end |-> Head(cs)[k].end,
           firstStart |-> Head(cs)[1].start,
           lastEnd |-> Head(cs)[Len(Head(cs))].end]]
       \o WordsWithWindows(Tail(cs))

\* C25: the filter list holds two filters per word, the normal one first and
\* the highlight one directly after it at the same position; the normal one
\* is enabled from the caption's first word start to its last word end, the
\* highlight one from the word's start to the word's end.
C25_TwoFiltersPerWord ==
  overlay.pc = "done" =>
    LET ws == WordsWithWindows(overlay.captionsList)
        fs == overlay.drawtextFilters
    IN  /\ Len(fs) = 2 * Len(ws)
        /\ \A n \in DOMAIN ws :
             /\ fs[2 * n - 1].kind = "normal"
             /\ fs[2 * n].kind = "highlight"
             /\ fs[2 * n].caption = fs[2 * n - 1].caption
             /\ fs[2 * n].word = fs[2 * n - 1].word
             /\ fs[2 * n].twiceX = fs[2 * n - 1].twiceX
             /\ fs[2 * n - 1].from = ws[n].firstStart
             /\ fs[2 * n - 1].to = ws[n].lastEnd
             /\ fs[2 * n].from = ws[n].start
             /\ fs[2 * n].to = ws[n].end

\* C30: every pass of the split loop that made its part moves start
\* forward, so the loop ends; and when it has ended the parts lie end to end
\* from 0 to the total duration.
C30_SplitTerminatesCovering ==
  /\ [][(split.pc = "trim" /\ split'.pc = "test") =>
          split'.start > split.start]_vars
  /\ [](split.pc = "done" =>
         /\ Len(split.parts) >= 1
         /\ split.parts[1].start = 0
         /\ split.parts[Len(split.parts)].end = split.totalDur
         /\ \A k \in DOMAIN split.parts :
              /\ split.parts[k].start < split.parts[k].end
              /\ k > 1 => split.parts[k].start = split.parts[k - 1].end)

C23_OnlyFinalArtifactLeft ==
  run.pc = "p83" => run.files = {Final}

\* C27: when a ProcessJob call has ended, by returning or by raising, the
\* job is "completed" or "failed" in the map.
C27_EndsCompletedOrFailed ==
  run.ended # "no" => run.status \in {"completed", "failed"}

====
